---- MODULE Spec2Model ----
(***************************************************************************)
(* Car Racing Sorting Visualizer (src/script.js).                          *)
(*                                                                         *)
(* The file is one script of two strict-mode IIFEs that run one after the  *)
(* other on the same page.  IIFE 1 (lines 11-477) keeps `cars`, an array   *)
(* of {value, el}, and is the visualizer: the variables below are its      *)
(* closure state and the page.  IIFE 2 (lines 488-1047) declares cars,     *)
(* isSorting and isSorted of its own (lines 513-515) and works on `values` *)
(* and `carEls`, which nothing declares: each use of them throws           *)
(* ReferenceError, at load (updateSpeedLabel, line 980) and in each of the *)
(* click listeners it has put on the same buttons.  Its closure state      *)
(* (`second`) never changes and it writes nothing to the page.             *)
(*                                                                         *)
(* An async function is modelled as a stack of frames.  JavaScript runs    *)
(* the code between two timer awaits without interleaving, so one action   *)
(* of the model runs the handler from one timer await to the next          *)
(* (RunToAwait).  Array indices are 0-based as in the source; At reads a   *)
(* TLA+ sequence at a 0-based index.                                       *)
(***************************************************************************)
EXTENDS Integers, Sequences, FiniteSets, TLC

\* ---------------------------------------------------------------- bounds
\* Largest dataset size the size slider is taken to offer.
MaxN == 4
\* Largest number of btnStart handlers awaiting finalDriveToFinish at once.
MaxFinishing == 2
\* Largest dataset in the sessions whose hooks may reject: a failed run leaves
\* the Sequence in any intermediate order, and every such order can be the
\* input of the next run.
MaxFailN == 3
\* The values a car can get.  The source draws n distinct values from 10..99;
\* the algorithms only compare values, so a pool of MaxN values stands for the
\* range, and a dataset of n cars uses the n smallest values of the pool: one
\* dataset for each way of ordering n distinct values.
ValuePool == {1, 3, 5, 8} \cup {8 + 2 * k : k \in 1..(MaxN - 4)}

Algorithms == {"bubble", "selection", "quick", "merge"}

VARIABLES
    second,           \* cars, isSorting and isSorted of IIFE 2
    cars,             \* cars, sequence of [value, el]
    isSorting,
    isSorted,
    status,           \* statusEl.textContent, abbreviated
    btnStartDisabled, \* btnStart.disabled
    controlsDisabled, \* btnGenerate/btnReset/sliders .disabled
    algo,             \* algoSelect.value read by the running handler
    stack,            \* frames of the running async call chain
    pending,          \* timers (hooks) set and not yet fired
    ret,              \* value returned by the last finished call
    trace,            \* compare/swap hooks issued by the current run
    acked,            \* number of hooks of the current run that resolved
    lastSwap,         \* the last exchange performed on the Sequence
    fault,            \* the first call of the run that was passed an index
                      \* outside the Sequence (findIndex's -1 included)
    lastPartition,    \* the last return of partition: its range, its result,
                      \* the pivot and the Sequence at entry and at that moment
    lastMerge,        \* the last return of merge: its range and the Sequence
                      \* at entry and at that moment
    input,            \* the Sequence as it was when the run started
    finishing,        \* handlers suspended in finalDriveToFinish
    lastRequest,      \* the click the last step handled ("none": a timer
                      \* that resolved, "reject": a hook that rejected)
    call              \* a direct call of swapAnimated / moveElementToIndex

vars == <<second, cars, isSorting, isSorted, status,
          btnStartDisabled, controlsDisabled, algo, stack, pending, ret,
          trace, acked, lastSwap, fault, lastPartition, lastMerge, input,
          finishing, lastRequest, call>>

\* ---------------------------------------------------------------- helpers
At(s, i) == s[i + 1]
InRange(s, i) == i >= 0 /\ i < Len(s)
NoSwap == [i |-> -1, j |-> -1, vi |-> 0, vj |-> 0]
NoPartition ==
    [low |-> -1, high |-> -1, p |-> -1, pivot |-> 0, pivotEl |-> 0, entry |-> <<>>,
     items |-> <<>>]
NoMerge == [left |-> -1, right |-> -1, entry |-> <<>>, items |-> <<>>]
NoFault == [fn |-> "none", a |-> 0, b |-> 0]
NoCall == [fn |-> "none", a |-> 0, b |-> 0, state |-> "none"]

\* The machine an async call chain runs on: the arrays and the call stack.
Mach == [cars |-> cars, stack |-> stack, pending |-> pending,
         ret |-> ret, trace |-> trace, acked |-> acked,
         lastSwap |-> lastSwap, fault |-> fault, part |-> lastPartition,
         merged |-> lastMerge, threw |-> FALSE]

Top(m) == m.stack[Len(m.stack)]
Pop(m) == [m EXCEPT !.stack = SubSeq(@, 1, Len(@) - 1)]
SetTop(m, f) == [m EXCEPT !.stack[Len(m.stack)] = f]
\* `await callee(...)`: the caller continues at frame f when callee returns.
Call(m, f, callee) == [m EXCEPT !.stack = Append(SubSeq(@, 1, Len(@) - 1) \o <<f>>, callee)]
\* An uncaught exception unwinds every frame up to the click handler.
Throw(m) == [m EXCEPT !.stack = <<>>, !.threw = TRUE]

\* cars.length
Length(m) == Len(m.cars)
\* cars[i].value
Val(m, i) == At(m.cars, i).value
\* the values of the Sequence, left to right
ValuesOf(m) == [p \in 1..Len(m.cars) |-> m.cars[p].value]
\* the identities of the Sequence, left to right
IdsOf(m) == [p \in 1..Len(m.cars) |-> m.cars[p].el]
\* the items of the Sequence, left to right: value and element
Items(m) == m.cars

CompareFrame(i, j) == [fn |-> "compare", pc |-> "start", i |-> i, j |-> j]
SwapFrame(i, j) == [fn |-> "swapAnimated", pc |-> "start", i |-> i, j |-> j]

\* ---------------------------------------------------------------- hooks
\* wait(ms): a timer the caller suspends on.
SetTimer(m, kind, i, j) ==
    [m EXCEPT !.pending = Append(@, [kind |-> kind, i |-> i, j |-> j, id |-> Len(m.trace)])]

\* compare without its await: the timer is set and the caller goes on.
compareNotAwaited(m) ==
    LET f == Top(m)
        m1 == [m EXCEPT !.trace = Append(@, <<"compare", f.i, f.j>>)]
    IN  Pop(SetTimer(m1, "compare", f.i, f.j))

\* compare(i, j): highlight, wait, un-highlight.
compare(m) ==
    LET f == Top(m) IN
    IF f.pc = "start"
    THEN LET m1 == [m EXCEPT !.trace = Append(@, <<"compare", f.i, f.j>>)]
         IN  SetTop(SetTimer(m1, "compare", f.i, f.j), [f EXCEPT !.pc = "await"])
    ELSE Pop(m)

\* an exchange that loses the saved item
swapInArrayNoTemp(c, i, j) == [c EXCEPT ![i + 1] = At(c, j)]

\* swapInArray(i, j)
swapInArray(c, i, j) == [c EXCEPT ![i + 1] = At(c, j), ![j + 1] = At(c, i)]

\* a swapAnimated that animates and never exchanges the array slots
swapAnimatedNoCommit(m) ==
    LET f == Top(m) IN
    IF f.pc = "start" /\ f.i /= f.j /\ InRange(m.cars, f.i) /\ InRange(m.cars, f.j)
    THEN LET m1 == [m EXCEPT !.trace = Append(@, <<"swap", f.i, f.j>>)]
         IN  SetTop(SetTimer(m1, "swap", f.i, f.j), [f EXCEPT !.pc = "await"])
    ELSE Pop(m)

\* a swapAnimated without its `if (i === j) return;`
swapAnimatedNoEarlyReturn(m) ==
    LET f == Top(m) IN
    CASE f.pc = "start" ->
           IF ~InRange(m.cars, f.i) \/ ~InRange(m.cars, f.j)
           THEN Throw(m)
           ELSE LET m1 == [m EXCEPT !.trace = Append(@, <<"swap", f.i, f.j>>)]
                IN  SetTop(SetTimer(m1, "swap", f.i, f.j), [f EXCEPT !.pc = "await"])
      [] OTHER ->
           Pop([m EXCEPT !.cars = [@ EXCEPT ![f.i + 1] = At(m.cars, f.j),
                                            ![f.j + 1] = At(m.cars, f.i)],
                         !.lastSwap = [i |-> f.i, j |-> f.j,
                                       vi |-> At(m.cars, f.i).value,
                                       vj |-> At(m.cars, f.j).value]])

\* swapAnimated(i, j): animate first, exchange after the wait.
swapAnimated(m) ==
    LET f == Top(m) IN
    CASE f.pc = "start" ->
           IF f.i = f.j THEN Pop(m)
           ELSE IF ~InRange(m.cars, f.i) \/ ~InRange(m.cars, f.j)
           THEN Throw(m)   \* cars[i].el of undefined: TypeError
           ELSE LET m1 == [m EXCEPT !.trace = Append(@, <<"swap", f.i, f.j>>)]
                IN  SetTop(SetTimer(m1, "swap", f.i, f.j), [f EXCEPT !.pc = "await"])
      [] OTHER ->
           Pop([m EXCEPT !.cars = swapInArray(@, f.i, f.j),
                         !.lastSwap = [i |-> f.i, j |-> f.j,
                                       vi |-> At(m.cars, f.i).value,
                                       vj |-> At(m.cars, f.j).value]])

\* ---------------------------------------------------------------- algorithms
\* a test with the comparison turned round
BubbleOutOfOrderReversed(m, j) == Val(m, j) < Val(m, j + 1)

\* bubbleSort's test `cars[j].value > cars[j + 1].value`.
BubbleOutOfOrder(m, j) == Val(m, j) > Val(m, j + 1)

\* an inner loop that rescans the sorted suffix
BubbleInnerLimitFull(n, i) == n - 1

\* an inner loop that runs one comparison past the unsorted part
BubbleInnerLimitOver(n, i) == n - i

\* bubbleSort's inner loop bound `j < n - i - 1`.
BubbleInnerLimit(n, i) == n - i - 1

bubbleSort(m) ==
    LET f == Top(m) IN
    CASE f.pc = "outer" ->
           IF f.i < f.n - 1 THEN SetTop(m, [f EXCEPT !.j = 0, !.pc = "inner"])
           ELSE Pop(m)
      [] f.pc = "inner" ->
           IF f.j < BubbleInnerLimit(f.n, f.i)
           THEN Call(m, [f EXCEPT !.pc = "test"], CompareFrame(f.j, f.j + 1))
           ELSE SetTop(m, [f EXCEPT !.i = @ + 1, !.pc = "outer"])
      [] OTHER ->
           IF BubbleOutOfOrder(m, f.j)
           THEN Call(m, [f EXCEPT !.j = @ + 1, !.pc = "inner"], SwapFrame(f.j, f.j + 1))
           ELSE SetTop(m, [f EXCEPT !.j = @ + 1, !.pc = "inner"])

BubbleFrame(m) == [fn |-> "bubbleSort", pc |-> "outer", n |-> Length(m), i |-> 0, j |-> 0]

\* a test that tracks the largest value instead of the smallest
SelectionSmallerReversed(m, j, minIdx) == Val(m, j) > Val(m, minIdx)

\* selectionSort's test `cars[j].value < cars[minIdx].value`.
SelectionSmaller(m, j, minIdx) == Val(m, j) < Val(m, minIdx)

selectionSort(m) ==
    LET f == Top(m) IN
    CASE f.pc = "outer" ->
           IF f.i < f.n - 1
           THEN SetTop(m, [f EXCEPT !.minIdx = f.i, !.j = f.i + 1, !.pc = "inner"])
           ELSE Pop(m)
      [] f.pc = "inner" ->
           IF f.j < f.n
           THEN Call(m, [f EXCEPT !.pc = "test"], CompareFrame(f.minIdx, f.j))
           ELSE IF f.minIdx /= f.i
           THEN Call(m, [f EXCEPT !.i = @ + 1, !.pc = "outer"], SwapFrame(f.i, f.minIdx))
           ELSE SetTop(m, [f EXCEPT !.i = @ + 1, !.pc = "outer"])
      [] OTHER ->
           SetTop(m, [f EXCEPT !.minIdx = IF SelectionSmaller(m, f.j, f.minIdx) THEN f.j ELSE @,
                               !.j = @ + 1, !.pc = "inner"])

SelectionFrame(m) ==
    [fn |-> "selectionSort", pc |-> "outer", n |-> Length(m), i |-> 0, j |-> 0, minIdx |-> 0]

\* a partition that takes the first element as pivot
PivotFirst(m, low, high) == Val(m, low)

\* partition's pivot `cars[high].value`.
Pivot(m, low, high) == Val(m, high)
\* a test that sends the values above the pivot to the left
BelongsLeftReversed(m, j, pivot) == Val(m, j) >= pivot

\* partition's test `cars[j].value <= pivot`.
BelongsLeft(m, j, pivot) == Val(m, j) <= pivot

PartitionFrame(low, high) ==
    [fn |-> "partition", pc |-> "start", low |-> low, high |-> high,
     pivot |-> 0, pivotEl |-> 0, entry |-> <<>>, i |-> 0, j |-> 0]

partition(m) ==
    LET f == Top(m) IN
    CASE f.pc = "start" ->
           SetTop(m, [f EXCEPT !.pivot = Pivot(m, f.low, f.high),
                               !.pivotEl = At(IdsOf(m), f.high), !.entry = Items(m),
                               !.i = f.low - 1, !.j = f.low, !.pc = "loop"])
      [] f.pc = "loop" ->
           IF f.j < f.high
           THEN Call(m, [f EXCEPT !.pc = "test"], CompareFrame(f.j, f.high))
           ELSE Call(m, [f EXCEPT !.pc = "return"], SwapFrame(f.i + 1, f.high))
      [] f.pc = "test" ->
           IF BelongsLeft(m, f.j, f.pivot)
           THEN Call(m, [f EXCEPT !.i = @ + 1, !.j = @ + 1, !.pc = "loop"],
                     SwapFrame(f.i + 1, f.j))
           ELSE SetTop(m, [f EXCEPT !.j = @ + 1, !.pc = "loop"])
      [] OTHER ->
           Pop([m EXCEPT !.ret = f.i + 1,
                         !.part = [low |-> f.low, high |-> f.high, p |-> f.i + 1,
                                   pivot |-> f.pivot, pivotEl |-> f.pivotEl,
                                   entry |-> f.entry, items |-> Items(m)]])

QsFrame(low, high) == [fn |-> "qs", pc |-> "start", low |-> low, high |-> high, p |-> 0]

qs(m) ==
    LET f == Top(m) IN
    CASE f.pc = "start" ->
           IF f.low < f.high
           THEN Call(m, [f EXCEPT !.pc = "left"], PartitionFrame(f.low, f.high))
           ELSE Pop(m)
      [] f.pc = "left" ->
           Call(m, [f EXCEPT !.p = m.ret, !.pc = "right"], QsFrame(f.low, m.ret - 1))
      [] f.pc = "right" ->
           Call(m, [f EXCEPT !.pc = "end"], QsFrame(f.p + 1, f.high))
      [] OTHER -> Pop(m)

\* moveElementToIndex(fromIdx, toIdx): a chain of adjacent swapAnimated calls.
MoveFrame(fromIdx, toIdx) ==
    [fn |-> "moveElementToIndex", pc |-> "start", fromIdx |-> fromIdx, toIdx |-> toIdx, k |-> 0]

\* a rightward move that stops one position early
MoveUpMoreShort(k, toIdx) == k < toIdx - 1

\* a leftward move that stops one position early
MoveDownMoreShort(k, toIdx) == k > toIdx + 1

\* the loop tests `k < toIdx` and `k > toIdx`
MoveUpMore(k, toIdx) == k < toIdx
MoveDownMore(k, toIdx) == k > toIdx

\* a relocation done as one direct exchange of fromIdx and toIdx
moveElementToIndexDirect(m) ==
    LET f == Top(m) IN
    IF f.pc = "start" /\ f.fromIdx /= f.toIdx
    THEN Call(m, [f EXCEPT !.pc = "done"], SwapFrame(f.fromIdx, f.toIdx))
    ELSE Pop(m)

moveElementToIndex(m) ==
    LET f == Top(m) IN
    CASE f.pc = "start" ->
           IF f.fromIdx = f.toIdx THEN Pop(m)
           ELSE SetTop(m, [f EXCEPT !.k = f.fromIdx,
                                    !.pc = IF f.fromIdx < f.toIdx THEN "up" ELSE "down"])
      [] f.pc = "up" ->
           IF MoveUpMore(f.k, f.toIdx)
           THEN Call(m, [f EXCEPT !.k = @ + 1], SwapFrame(f.k, f.k + 1))
           ELSE Pop(m)
      [] OTHER ->
           IF MoveDownMore(f.k, f.toIdx)
           THEN Call(m, [f EXCEPT !.k = @ - 1], SwapFrame(f.k, f.k - 1))
           ELSE Pop(m)

\* cars.findIndex((c, idx) => idx >= left && c.value === val)
findIndex(m, left, val) ==
    LET hits == {idx \in 0..(Length(m) - 1) : idx >= left /\ Val(m, idx) = val}
    IN  IF hits = {} THEN -1 ELSE CHOOSE idx \in hits : \A other \in hits : idx <= other

\* a test that takes the larger candidate first
TakeLeftReversed(valL, valR) == valL >= valR

\* merge's test `valL <= valR`: on a tie the left candidate goes first.
TakeLeft(valL, valR) == valL <= valR

MergeFrame(left, mid, right) ==
    [fn |-> "merge", pc |-> "start", left |-> left, mid |-> mid, right |-> right,
     leftVals |-> <<>>, rightVals |-> <<>>, entry |-> <<>>, i |-> 0, j |-> 0, k |-> 0]

\* an output slot that starts at the front of the array
FirstSlotZero(left) == 0

\* merge's `k = left`: the output slot starts at the left end of the range.
FirstSlot(left) == left

\* a relocation called with its two arguments exchanged
MoveToSwapped(m, f, currIdx, k) ==
    IF currIdx /= k THEN Call(m, f, MoveFrame(k, currIdx)) ELSE SetTop(m, f)

\* `if (currIdx !== k) await moveElementToIndex(currIdx, k)`, continuing at f.
MoveTo(m, f, currIdx, k) ==
    IF currIdx /= k THEN Call(m, f, MoveFrame(currIdx, k)) ELSE SetTop(m, f)

merge(m) ==
    LET f == Top(m) IN
    CASE f.pc = "start" ->
           SetTop(m, [f EXCEPT
               !.leftVals = [p \in 1..(f.mid - f.left + 1) |-> Val(m, f.left + p - 1)],
               !.rightVals = [p \in 1..(f.right - f.mid) |-> Val(m, f.mid + p)],
               !.entry = Items(m), !.i = 0, !.j = 0, !.k = FirstSlot(f.left), !.pc = "main"])
      [] f.pc = "main" ->
           IF f.i < Len(f.leftVals) /\ f.j < Len(f.rightVals)
           THEN LET idxL == findIndex(m, f.left, At(f.leftVals, f.i))
                    idxR == findIndex(m, f.left, At(f.rightVals, f.j))
                IN  IF idxL /= -1 /\ idxR /= -1
                    THEN Call(m, [f EXCEPT !.pc = "choose"], CompareFrame(idxL, idxR))
                    ELSE SetTop(m, [f EXCEPT !.pc = "choose"])
           ELSE SetTop(m, [f EXCEPT !.pc = "tailL"])
      [] f.pc = "choose" ->
           LET valL == At(f.leftVals, f.i)
               valR == At(f.rightVals, f.j)
           IN  IF TakeLeft(valL, valR)
               THEN MoveTo(m, [f EXCEPT !.pc = "tookL"], findIndex(m, f.left, valL), f.k)
               ELSE MoveTo(m, [f EXCEPT !.pc = "tookR"], findIndex(m, f.left, valR), f.k)
      [] f.pc = "tookL" ->
           SetTop(m, [f EXCEPT !.k = @ + 1, !.i = @ + 1, !.pc = "main"])
      [] f.pc = "tookR" ->
           SetTop(m, [f EXCEPT !.k = @ + 1, !.j = @ + 1, !.pc = "main"])
      [] f.pc = "tailL" ->
           IF f.i < Len(f.leftVals)
           THEN MoveTo(m, [f EXCEPT !.i = @ + 1, !.pc = "tailLdone"],
                       findIndex(m, f.left, At(f.leftVals, f.i)), f.k)
           ELSE SetTop(m, [f EXCEPT !.pc = "tailR"])
      [] f.pc = "tailLdone" ->
           SetTop(m, [f EXCEPT !.k = @ + 1, !.pc = "tailL"])
      [] f.pc = "tailR" ->
           IF f.j < Len(f.rightVals)
           THEN MoveTo(m, [f EXCEPT !.j = @ + 1, !.pc = "tailRdone"],
                       findIndex(m, f.left, At(f.rightVals, f.j)), f.k)
           ELSE Pop([m EXCEPT !.merged = [left |-> f.left, right |-> f.right,
                                          entry |-> f.entry, items |-> Items(m)]])
      [] OTHER ->
           SetTop(m, [f EXCEPT !.k = @ + 1, !.pc = "tailR"])

MsFrame(left, right) == [fn |-> "ms", pc |-> "start", left |-> left, right |-> right, mid |-> 0]

\* Math.floor((left + right) / 2)
Mid(left, right) == (left + right) \div 2

ms(m) ==
    LET f == Top(m) IN
    CASE f.pc = "start" ->
           IF f.left >= f.right THEN Pop(m)
           ELSE Call(m, [f EXCEPT !.mid = Mid(f.left, f.right), !.pc = "second"],
                     MsFrame(f.left, Mid(f.left, f.right)))
      [] f.pc = "second" ->
           Call(m, [f EXCEPT !.pc = "merge"], MsFrame(f.mid + 1, f.right))
      [] f.pc = "merge" ->
           Call(m, [f EXCEPT !.pc = "end"], MergeFrame(f.left, f.mid, f.right))
      [] OTHER -> Pop(m)

\* One step of the frame on top of the stack.
Step(m) ==
    LET fn == Top(m).fn IN
    CASE fn = "compare" -> compare(m)
      [] fn = "swapAnimated" -> swapAnimated(m)
      [] fn = "bubbleSort" -> bubbleSort(m)
      [] fn = "selectionSort" -> selectionSort(m)
      [] fn = "partition" -> partition(m)
      [] fn = "qs" -> qs(m)
      [] fn = "moveElementToIndex" -> moveElementToIndex(m)
      [] fn = "merge" -> merge(m)
      [] fn = "ms" -> ms(m)

\* The call on top of the stack, when it is entered with an index that is
\* not a position of the Sequence: compare(i, j), swapAnimated(i, j),
\* moveElementToIndex(fromIdx, toIdx), and the findIndex results of merge
\* (-1 when the value is not found).
Entered(m) ==
    LET f == Top(m)
        Outside(idx) == idx < 0 \/ idx >= Length(m)
        Lookup(val) == findIndex(m, f.left, val)
    IN  CASE f.fn \in {"compare", "swapAnimated"} /\ f.pc = "start" ->
               IF Outside(f.i) \/ Outside(f.j) THEN [fn |-> f.fn, a |-> f.i, b |-> f.j]
               ELSE NoFault
          [] f.fn = "moveElementToIndex" /\ f.pc = "start" ->
               IF Outside(f.fromIdx) \/ Outside(f.toIdx)
               THEN [fn |-> f.fn, a |-> f.fromIdx, b |-> f.toIdx]
               ELSE NoFault
          [] f.fn = "merge" /\ f.pc = "main"
               /\ f.i < Len(f.leftVals) /\ f.j < Len(f.rightVals) ->
               IF Lookup(At(f.leftVals, f.i)) = -1 \/ Lookup(At(f.rightVals, f.j)) = -1
               THEN [fn |-> "findIndex", a |-> Lookup(At(f.leftVals, f.i)),
                     b |-> Lookup(At(f.rightVals, f.j))]
               ELSE NoFault
          [] f.fn = "merge" /\ f.pc = "tailL" /\ f.i < Len(f.leftVals) ->
               IF Lookup(At(f.leftVals, f.i)) = -1
               THEN [fn |-> "findIndex", a |-> -1, b |-> f.k] ELSE NoFault
          [] f.fn = "merge" /\ f.pc = "tailR" /\ f.j < Len(f.rightVals) ->
               IF Lookup(At(f.rightVals, f.j)) = -1
               THEN [fn |-> "findIndex", a |-> -1, b |-> f.k] ELSE NoFault
          [] OTHER -> NoFault

\* Records the first such call of the run.
Note(m) == IF m.fault = NoFault THEN [m EXCEPT !.fault = Entered(m)] ELSE m

\* A frame suspended on a timer.
Suspended(m) ==
    /\ m.stack /= <<>>
    /\ Top(m).pc = "await"

\* Run until the call chain suspends on a timer, returns or throws.
RECURSIVE RunToAwait(_)
RunToAwait(m) ==
    IF m.threw \/ m.stack = <<>> \/ Suspended(m) THEN m
    ELSE CHOOSE r \in {RunToAwait(next) : next \in {Step(noted) : noted \in {Note(m)}}} : TRUE

\* a timer that fires without resuming the frame that waits for it
FireLost(m, k) ==
    [m EXCEPT !.pending = SubSeq(m.pending, 1, k - 1) \o SubSeq(m.pending, k + 1, Len(m.pending))]

\* The timer at position k of pending fires: the frame waiting for it resumes.
Fire(m, k) ==
    LET t == m.pending[k]
        rest == SubSeq(m.pending, 1, k - 1) \o SubSeq(m.pending, k + 1, Len(m.pending))
        m1 == [m EXCEPT !.pending = rest, !.acked = Append(@, t.id)]
        f == Top(m)
    IN  IF Suspended(m) /\ f.i = t.i /\ f.j = t.j
        THEN RunToAwait(SetTop(m1, [f EXCEPT !.pc = "resumed"]))
        ELSE m1

\* a rejection the awaiting frame swallows: it goes on as if the hook resolved
RejectSwallowed(m, k) == Fire(m, k)

\* The promise the timer at position k of pending stands for rejects: the
\* await throws in the suspended frame, and no frame of the algorithms
\* catches, so the exception unwinds to the click handler.
Reject(m, k) ==
    LET rest == SubSeq(m.pending, 1, k - 1) \o SubSeq(m.pending, k + 1, Len(m.pending))
    IN  Throw([m EXCEPT !.pending = rest])

\* quickSort(): qs(0, cars.length - 1); mergeSort(): ms(0, cars.length - 1)
AlgoFrame(m, a) ==
    CASE a = "bubble" -> BubbleFrame(m)
      [] a = "selection" -> SelectionFrame(m)
      [] a = "quick" -> QsFrame(0, Length(m) - 1)
      [] a = "merge" -> MsFrame(0, Length(m) - 1)
      [] OTHER -> BubbleFrame(m)

\* ---------------------------------------------------------------- generation
\* generateValues(n): the first n of a shuffled pool, pairwise distinct.
generateValues(n) ==
    LET Used(s) == {s[p] : p \in 1..n}
        Smallest(s) == \A x \in Used(s) : \A y \in ValuePool : y < x => y \in Used(s)
    IN  {s \in [1..n -> ValuePool] :
            Smallest(s) /\ \A p, q \in 1..n : p /= q => s[p] /= s[q]}

\* the sizes the size slider offers
Sizes == 1..MaxN

\* every dataset generateValues can return, by size
Datasets == [n \in Sizes |-> generateValues(n)]

\* Every array of n values renderCars can be given, values that repeat
\* included.  The algorithms only compare values and test them for equality,
\* so an array uses the k smallest values of the pool for some k: one array
\* for each way of ordering n values of which some may be equal.
AnyValues(n) ==
    LET Used(s) == {s[p] : p \in 1..n}
        Smallest(s) == \A x \in Used(s) : \A y \in ValuePool : y < x => y \in Used(s)
    IN  {s \in [1..n -> ValuePool] : Smallest(s)}

\* every input Sequence of a run, by size
AnyDatasets == [n \in Sizes |-> AnyValues(n)]

\* renderCars(vals): one fresh element per value, in order.
renderCars(vals) == [p \in 1..Len(vals) |-> [value |-> vals[p], el |-> p]]

\* ---------------------------------------------------------------- actions
\* let cars = []; let isSorting = false; let isSorted = false; of IIFE 2
Second0 == [cars |-> <<>>, isSorting |-> FALSE, isSorted |-> FALSE]

\* The page after script.js has run.  IIFE 1 ends with the status set and
\* Start disabled (line 476).  IIFE 2 then registers its listeners and throws
\* ReferenceError in updateSpeedLabel (line 980, called at line 1042).
Init ==
    /\ second = Second0
    /\ cars = <<>>
    /\ isSorting = FALSE /\ isSorted = FALSE
    /\ status = "Ready"
    /\ btnStartDisabled = TRUE /\ controlsDisabled = FALSE
    /\ algo = "none"
    /\ stack = <<>> /\ pending = <<>> /\ ret = 0
    /\ trace = <<>> /\ acked = <<>> /\ lastSwap = NoSwap /\ fault = NoFault /\ lastPartition = NoPartition
    /\ lastMerge = NoMerge /\ input = <<>>
    /\ finishing = 0
    /\ lastRequest = "none"
    /\ call = NoCall

\* a Generate handler without its guard
GenerateNeverBlocked == FALSE

\* a Start handler that only tests the running flag
StartBlockedOnlyRunning == isSorting

\* `if (isSorting) return;` and `if (isSorting || cars.length === 0) return;`
GenerateBlocked == isSorting
ResetBlocked == isSorting
StartBlocked == isSorting \/ Length(Mach) = 0

\* The listener of IIFE 2 on the clicked button, which runs after that of
\* IIFE 1.  It ends in a ReferenceError at its first use of `values` or
\* `carEls`: generateCars at `values = generateValues(n)` (line 818), reset
\* in unmarkState (line 657), the Start listener in its guard `values.length`
\* (line 1001).  Before that generateCars and reset have set the isSorting
\* and isSorted of IIFE 2 to false; nothing is written to the page.
Listener2(what) ==
    second' = IF what \in {"generate", "reset"} /\ ~second.isSorting
              THEN [second EXCEPT !.isSorting = FALSE, !.isSorted = FALSE]
              ELSE second

\* A handler that returns at its guard.
Rejected(what) ==
    /\ lastRequest' = what
    /\ Listener2(what)
    /\ UNCHANGED <<cars, isSorting, isSorted, status,
                   btnStartDisabled, controlsDisabled, algo, stack, pending, ret,
                   trace, acked, lastSwap, fault, lastPartition, lastMerge, input,
                   finishing, call>>

ClearRun ==
    /\ algo' = "none" /\ stack' = <<>> /\ pending' = <<>> /\ ret' = 0
    /\ trace' = <<>> /\ acked' = <<>> /\ lastSwap' = NoSwap /\ fault' = NoFault /\ lastPartition' = NoPartition
    /\ lastMerge' = NoMerge
    /\ input' = <<>>

\* generateCars() with the size slider at maxn or below
generateCarsUpTo(maxn) ==
    /\ isSorted' = FALSE /\ isSorting' = FALSE
    /\ \E n \in {k \in Sizes : k <= maxn} : \E vals \in Datasets[n] :
         cars' = renderCars(vals)
    /\ status' = "Generated"
    /\ btnStartDisabled' = FALSE
    /\ ClearRun
    /\ lastRequest' = "generate"
    /\ Listener2("generate")
    /\ UNCHANGED <<controlsDisabled, finishing, call>>

\* generateCars()
generateCars == generateCarsUpTo(MaxN)

\* btnGenerate click handler
GenerateClick ==
    \/ GenerateBlocked /\ Rejected("generate")
    \/ ~GenerateBlocked /\ generateCars

\* reset()
reset ==
    /\ isSorting' = FALSE /\ isSorted' = FALSE
    /\ status' = "Reset"
    /\ cars' = <<>>
    /\ btnStartDisabled' = TRUE
    /\ ClearRun
    /\ lastRequest' = "reset"
    /\ Listener2("reset")
    /\ UNCHANGED <<controlsDisabled, finishing, call>>

\* btnReset click handler
ResetClick ==
    \/ ResetBlocked /\ Rejected("reset")
    \/ ~ResetBlocked /\ reset

\* The btnStart handler from the point its algorithm call chain has run to m:
\* still suspended, returned (completion path) or thrown (catch path).
\* cd, bd: the controls as the handler left them so far.  On the completion
\* path the handler sets isSorted, clears isSorting and then awaits
\* finalDriveToFinish, however many earlier handlers still wait there.
Handler(m, cd, bd) ==
    /\ cars' = m.cars
    /\ stack' = m.stack /\ pending' = m.pending /\ ret' = m.ret
    /\ trace' = m.trace /\ acked' = m.acked /\ lastSwap' = m.lastSwap
    /\ lastPartition' = m.part /\ lastMerge' = m.merged /\ fault' = m.fault
    /\ IF m.threw
       THEN /\ isSorting' = FALSE /\ isSorted' = isSorted
            /\ controlsDisabled' = FALSE /\ btnStartDisabled' = isSorted
            /\ status' = "Error"
            /\ finishing' = finishing
       ELSE IF m.stack = <<>>
       THEN /\ isSorted' = TRUE /\ isSorting' = FALSE
            /\ status' = "Finished"
            /\ finishing' = finishing + 1
            /\ controlsDisabled' = cd /\ btnStartDisabled' = bd
       ELSE /\ isSorting' = TRUE /\ isSorted' = isSorted
            /\ status' = "Sorting"
            /\ controlsDisabled' = cd /\ btnStartDisabled' = bd
            /\ finishing' = finishing

\* btnStart click handler, up to its first timer await.
StartClick ==
    \/ /\ StartBlocked
       /\ Rejected("start")
    \/ /\ ~StartBlocked
       /\ \E a \in Algorithms :
            /\ algo' = a
            /\ input' = Items(Mach)
            /\ LET m0 == [Mach EXCEPT !.stack = <<AlgoFrame(Mach, a)>>,
                                      !.pending = <<>>, !.trace = <<>>,
                                      !.acked = <<>>, !.lastSwap = NoSwap,
                                      !.part = NoPartition, !.merged = NoMerge,
                                      !.fault = NoFault,
                                      !.ret = 0]
               IN  \E m \in {RunToAwait(m0)} : Handler(m, TRUE, TRUE)
       /\ lastRequest' = "start"
       /\ Listener2("start")
       /\ UNCHANGED call

\* The sessions explored: the user clicks Start while fewer than MaxFinishing
\* earlier handlers still await finalDriveToFinish, so that no more than
\* MaxFinishing handlers wait there at once.  The handler itself has no such
\* limit.
StartWhileFewFinishing == finishing < MaxFinishing /\ StartClick

\* A timer set by compare or swapAnimated fires and the handler continues.
HookResolve ==
    /\ pending /= <<>>
    /\ \E k \in 1..Len(pending) : \E m \in {Fire(Mach, k)} :
         Handler(m, controlsDisabled, btnStartDisabled)
    /\ lastRequest' = "none"
    /\ UNCHANGED <<second, algo, input, call>>

\* finalDriveToFinish resolves: confetti, controls re-enabled.
FinishDrive ==
    /\ finishing > 0
    /\ finishing' = finishing - 1
    /\ controlsDisabled' = FALSE
    /\ btnStartDisabled' = TRUE
    /\ lastRequest' = "none"
    /\ UNCHANGED <<second, cars, isSorting, isSorted, status,
                   algo, stack, pending, ret, trace, acked, lastSwap, fault,
                   lastPartition, lastMerge, input, call>>

Next ==
    \/ GenerateClick
    \/ ResetClick
    \/ StartWhileFewFinishing
    \/ HookResolve
    \/ FinishDrive

Spec == Init /\ [][Next]_vars

\* ---------------------------------------------------------------- hook failure
\* The page right after generateCars, with the cars renderCars made of vals.
Holding(vals) ==
    /\ second = Second0
    /\ cars = renderCars(vals)
    /\ status = "Generated"
    /\ isSorting = FALSE /\ isSorted = FALSE
    /\ btnStartDisabled = FALSE /\ controlsDisabled = FALSE
    /\ algo = "none"
    /\ stack = <<>> /\ pending = <<>> /\ ret = 0
    /\ trace = <<>> /\ acked = <<>> /\ lastSwap = NoSwap /\ fault = NoFault /\ lastPartition = NoPartition
    /\ lastMerge = NoMerge /\ input = <<>>
    /\ finishing = 0
    /\ lastRequest = "none"
    /\ call = NoCall

\* The page after a Generate click on the loaded page, with the size slider
\* at maxn or below.
Generated(maxn) ==
    \E n \in {k \in Sizes : k <= maxn} : \E vals \in Datasets[n] : Holding(vals)

\* The sessions with hooks that may reject.
InitFail == Generated(MaxFailN)

\* An awaited compare or swap hook rejects: the handler's catch path runs.
HookReject ==
    /\ pending /= <<>>
    /\ \E k \in 1..Len(pending) : \E m \in {Reject(Mach, k)} :
         Handler(m, controlsDisabled, btnStartDisabled)
    /\ lastRequest' = "reject"
    /\ UNCHANGED <<second, algo, input, call>>

\* btnGenerate click handler, the size slider at MaxFailN or below
GenerateSmallClick ==
    \/ GenerateBlocked /\ Rejected("generate")
    \/ ~GenerateBlocked /\ generateCarsUpTo(MaxFailN)

NextFail ==
    \/ GenerateSmallClick
    \/ ResetClick
    \/ StartWhileFewFinishing
    \/ HookResolve
    \/ HookReject
    \/ FinishDrive

SpecFail == InitFail /\ [][NextFail]_vars

\* ---------------------------------------------------------------- any input
\* One run of an algorithm on any input Sequence: the cars renderCars makes of
\* any array of values, with equal values or without (the datasets hold every
\* order of the values).  The user starts one run on each dataset.
InitAny == \E n \in Sizes : \E vals \in AnyDatasets[n] : Holding(vals)

FirstStart == status = "Generated" /\ StartClick

NextLive ==
    \/ FirstStart
    \/ HookResolve
    \/ FinishDrive

SpecAny == InitAny /\ [][NextLive]_vars

\* The same runs with hooks that all resolve: every timer set by wait()
\* eventually fires.
SpecLive == InitAny /\ [][NextLive]_vars /\ WF_vars(HookResolve)

\* ---------------------------------------------------------------- direct calls
\* swapAnimated(a, b) or moveElementToIndex(a, b) called on a
\* generated Sequence with arbitrary indices, outside any run.

InitCall ==
    /\ second = Second0
    /\ \E n \in Sizes : \E vals \in Datasets[n] :
         /\ cars = renderCars(vals)
         /\ input = renderCars(vals)
         /\ \E fn \in {"swapAnimated", "moveElementToIndex"} : \E a, b \in -1..n :
              call = [fn |-> fn, a |-> a, b |-> b, state |-> "pending"]
    /\ isSorting = FALSE /\ isSorted = FALSE
    /\ status = "Generated"
    /\ btnStartDisabled = FALSE /\ controlsDisabled = FALSE
    /\ algo = "none"
    /\ stack = <<>> /\ pending = <<>> /\ ret = 0
    /\ trace = <<>> /\ acked = <<>> /\ lastSwap = NoSwap /\ fault = NoFault /\ lastPartition = NoPartition
    /\ lastMerge = NoMerge
    /\ finishing = 0
    /\ lastRequest = "none"

\* The call chain has run to m: suspended, returned or thrown.
Called(m) ==
    /\ cars' = m.cars
    /\ stack' = m.stack /\ pending' = m.pending /\ ret' = m.ret
    /\ trace' = m.trace /\ acked' = m.acked /\ lastSwap' = m.lastSwap
    /\ lastPartition' = m.part /\ lastMerge' = m.merged /\ fault' = m.fault
    /\ call' = [call EXCEPT !.state = IF m.threw THEN "threw"
                                      ELSE IF m.stack = <<>> THEN "returned"
                                      ELSE "awaiting"]
    /\ UNCHANGED <<second, isSorting, isSorted, status, btnStartDisabled,
                   controlsDisabled, algo, input, finishing, lastRequest>>

CallStart ==
    /\ call.state = "pending"
    /\ \E m \in {RunToAwait([Mach EXCEPT !.stack =
           <<IF call.fn = "swapAnimated" THEN SwapFrame(call.a, call.b)
                                         ELSE MoveFrame(call.a, call.b)>>])} : Called(m)

CallResolve ==
    /\ call.state = "awaiting"
    /\ \E k \in 1..Len(pending) : \E m \in {Fire(Mach, k)} : Called(m)

NextCall ==
    \/ CallStart
    \/ CallResolve

SpecCall == InitCall /\ [][NextCall]_vars

\* ---------------------------------------------------------------- properties
IsSorted(s) == \A p \in 1..(Len(s) - 1) : s[p] <= s[p + 1]
Completed == status = "Finished"
Abs(x) == IF x < 0 THEN -x ELSE x
CompareCount == Cardinality({p \in 1..Len(trace) : trace[p][1] = "compare"})
SwapCount == Cardinality({p \in 1..Len(trace) : trace[p][1] = "swap"})
Remove(s, p) == SubSeq(s, 1, p - 1) \o SubSeq(s, p + 1, Len(s))
Insert(s, p, x) == SubSeq(s, 1, p - 1) \o <<x>> \o SubSeq(s, p, Len(s))
\* the logical extract-and-insert of the item at 0-based index from to index to
ExtractInsert(s, from, to) == Insert(Remove(s, from + 1), to + 1, At(s, from))
InputValues == [p \in 1..Len(input) |-> input[p].value]
\* s with the items at 0-based positions i and j exchanged
Exchanged(s, i, j) ==
    [p \in 1..Len(s) |-> IF p = i + 1 THEN s[j + 1] ELSE IF p = j + 1 THEN s[i + 1] ELSE s[p]]

\* the input of the run holds two items of equal value
HasDuplicates == \E p, q \in 1..Len(input) : p < q /\ InputValues[p] = InputValues[q]

C2_MutualExclusion ==
    [][(isSorting /\ lastRequest' \in {"start", "generate", "reset"})
          => UNCHANGED <<cars, isSorting, isSorted,
                         stack, pending, trace, algo, input>>]_vars
C2_Witness == isSorting /\ lastRequest = "generate" /\ Len(trace) >= 2

\* C3 as stated: every exchange performed during a run is between two
\* adjacent positions.
C3_AllAdjacent == lastSwap = NoSwap \/ Abs(lastSwap.i - lastSwap.j) = 1
\* C3 amended: every mutation of the Sequence during a run is an exchange of
\* two positions; in bubble and merge runs the two positions are adjacent
\* (selection and quick also exchange positions further apart).
C3_ExchangesOnly ==
    [][(isSorting /\ Items(Mach)' /= Items(Mach))
          => \E i, j \in 0..(Length(Mach) - 1) :
               /\ i < j
               /\ Items(Mach)' = Exchanged(Items(Mach), i, j)
               /\ algo \in {"bubble", "merge"} => j = i + 1]_vars
C3_Witness ==
    /\ algo = "merge"
    /\ lastSwap /= NoSwap
    /\ \E p \in 1..Len(stack) :
         /\ stack[p].fn = "moveElementToIndex"
         /\ Abs(stack[p].fromIdx - stack[p].toIdx) >= 2

SwapArgsInRange == InRange(input, call.a) /\ InRange(input, call.b)

\* C4 as stated: a swap request that is non-adjacent or has an index out of
\* range leaves the Sequence as it was and awaits no swap hook.
C4_RejectsNonAdjacent ==
    (call.fn = "swapAnimated" /\ (Abs(call.a - call.b) /= 1 \/ ~SwapArgsInRange))
        => (Items(Mach) = input /\ trace = <<>>)
\* C4 amended: swapAnimated(i, j) with i = j returns with no mutation and no
\* hook; with an index out of range it leaves the Sequence as it was and
\* awaits no hook (it throws a TypeError); with i /= j in range, adjacent or
\* not, it awaits the swap hook and exchanges positions i and j.
C4_SwapContract ==
    call.fn = "swapAnimated" =>
        IF call.a = call.b
        THEN call.state \in {"pending", "returned"} /\ Items(Mach) = input /\ trace = <<>>
        ELSE IF ~SwapArgsInRange
        THEN /\ call.state \in {"pending", "threw"}
             /\ Items(Mach) = input /\ trace = <<>>
        ELSE /\ call.state /= "threw"
             /\ call.state = "pending" => (Items(Mach) = input /\ trace = <<>>)
             /\ call.state = "awaiting" => trace = <<<<"swap", call.a, call.b>>>>
             /\ call.state = "returned" =>
                  /\ trace = <<<<"swap", call.a, call.b>>>>
                  /\ Items(Mach) = Exchanged(input, call.a, call.b)
C4_Witness ==
    /\ call.fn = "swapAnimated" /\ call.state = "returned"
    /\ SwapArgsInRange /\ Abs(call.a - call.b) >= 2
    /\ Items(Mach) /= input

\* C5: for from, to in 0..n-1, after moveElementToIndex(from, to) the Sequence
\* is the input with the item at from extracted and inserted at to, and the
\* other items keep their relative order.
C5_RelocateCorrect ==
    (call.fn = "moveElementToIndex" /\ SwapArgsInRange /\ call.state = "returned")
        => /\ Items(Mach) = ExtractInsert(input, call.a, call.b)
           /\ Remove(Items(Mach), call.b + 1) = Remove(input, call.a + 1)
C5_Witness ==
    /\ call.fn = "moveElementToIndex" /\ call.state = "returned"
    /\ SwapArgsInRange /\ call.b - call.a >= 2
    /\ Items(Mach) /= input

C7_CompareCount ==
    (Completed /\ algo \in {"bubble", "selection"})
        => 2 * CompareCount = Len(input) * (Len(input) - 1)
C7_Witness ==
    /\ Completed /\ algo = "selection" /\ Len(input) = MaxN
    /\ HasDuplicates /\ ~IsSorted(InputValues)
    /\ 2 * CompareCount = MaxN * (MaxN - 1)

GoldenInput == <<5, 3, 8, 1>>
GoldenTrace ==
    << <<"compare", 0, 3>>, <<"compare", 1, 3>>, <<"compare", 2, 3>>, <<"swap", 0, 3>>,
       <<"compare", 1, 3>>, <<"compare", 2, 3>>, <<"swap", 2, 3>> >>

\* C8: every quick-sort run on [5, 3, 8, 1] emits the same compare/swap
\* sequence, whenever its hooks resolve, and ends with [1, 3, 5, 8].
C8_GoldenTrace ==
    (algo = "quick" /\ InputValues = GoldenInput)
        => /\ Len(trace) <= Len(GoldenTrace)
           /\ trace = SubSeq(GoldenTrace, 1, Len(trace))
           /\ Completed => (trace = GoldenTrace /\ ValuesOf(Mach) = <<1, 3, 5, 8>>)
C8_Witness ==
    /\ algo = "quick" /\ InputValues = GoldenInput /\ Completed
    /\ trace = GoldenTrace

C10_HookOrdering ==
    /\ Len(pending) <= 1
    /\ acked = [p \in 1..Len(acked) |-> p]
    /\ Len(trace) - Len(acked) = (IF pending = <<>> THEN 0 ELSE 1)
    /\ \A p \in 1..Len(pending) : pending[p].id = Len(trace)
    /\ algo = "bubble" =>
         \A p \in 1..Len(trace) :
            trace[p][1] = "swap" =>
               /\ trace[p][3] = trace[p][2] + 1
               /\ p > 1
               /\ trace[p - 1] = <<"compare", trace[p][2], trace[p][3]>>
               /\ \E q \in 1..Len(acked) : acked[q] = p - 1
C10_Witness ==
    /\ algo = "bubble" /\ isSorting
    /\ Len(pending) = 1 /\ pending[1].kind = "swap"
    /\ Len(trace) >= 4

Failed == status = "Error"

\* C11: when an awaited compare or swap hook rejects, the run ends in Failed:
\* isSorting is false, isSorted is what it was before (the failing run does
\* not set it), the run's call chain and timers are gone so it issues no
\* further compare or swap (its trace only changes when a new run starts or
\* a generate or reset discards it), and
\* a Start request made in Failed is accepted and starts a run.
C11_HookFailure ==
    /\ [][lastRequest' = "reject"
            => (Failed' /\ ~isSorting' /\ isSorted' = isSorted /\ trace' = trace
                /\ stack' = <<>> /\ pending' = <<>> /\ Items(Mach)' = Items(Mach))]_vars
    /\ [][Failed => (/\ ~isSorting /\ stack = <<>> /\ pending = <<>>
                     /\ trace' /= trace => lastRequest' \in {"start", "generate", "reset"}
                     /\ lastRequest' = "start"
                          => (status' \in {"Sorting", "Finished"} /\ input' = Items(Mach)
                              /\ isSorting' = (status' = "Sorting")))]_vars
C11_Witness ==
    /\ Failed /\ lastRequest = "reject" /\ ~isSorted
    /\ Len(trace) >= 2 /\ Items(Mach) /= input
    /\ input /= renderCars(InputValues)

ItemSet(s) == {s[p] : p \in 1..Len(s)}

\* C12: during and after a run, completed or failed, the Sequence is a
\* permutation of the items the last generate created: the elements are
\* pairwise distinct, and no step other than a generate or a reset changes the
\* set of (value, element) items or their number.
C12_Permutation ==
    /\ [](\A p, q \in 1..Length(Mach) : p /= q => IdsOf(Mach)[p] /= IdsOf(Mach)[q])
    /\ [](Len(ValuesOf(Mach)) = Len(IdsOf(Mach)))
    /\ [][lastRequest' \notin {"generate", "reset"}
            => /\ ItemSet(Items(Mach))' = ItemSet(Items(Mach))
               /\ Length(Mach)' = Length(Mach)]_vars
C12_Witness ==
    /\ algo = "merge" /\ Failed /\ Len(input) = MaxFailN
    /\ Items(Mach) /= input /\ ~IsSorted(ValuesOf(Mach))
    /\ ItemSet(Items(Mach)) = ItemSet(input)

SwapCall == call.fn = "swapAnimated" /\ SwapArgsInRange /\ call.a /= call.b

\* C13 as stated: swapAnimated(i, j) exchanges first and waits after, so
\* while its hook is pending the Sequence already holds the new order, and
\* once the hook is acknowledged the items are exchanged.
C13_ExchangeThenWait ==
    SwapCall =>
        /\ pending /= <<>> => Items(Mach) = Exchanged(input, call.a, call.b)
        /\ acked /= <<>> => Items(Mach) = Exchanged(input, call.a, call.b)
\* C13 amended: swapAnimated(i, j) waits on the swap hook first and exchanges
\* the items in the step that resumes from it: while the hook is pending the
\* Sequence still holds the old order; no state has the hook acknowledged and
\* the items not exchanged, and swapAnimated returns with the items exchanged.
C13_SwapSequencing ==
    SwapCall =>
        /\ pending /= <<>> =>
              /\ call.state = "awaiting"
              /\ Items(Mach) = input
        /\ acked /= <<>> =>
              /\ call.state = "returned"
              /\ Items(Mach) = Exchanged(input, call.a, call.b)
        /\ call.state = "returned" =>
              /\ acked = <<1>> /\ pending = <<>>
              /\ Items(Mach) = Exchanged(input, call.a, call.b)
C13_Witness ==
    /\ SwapCall /\ call.state = "awaiting"
    /\ pending /= <<>> /\ pending[1].kind = "swap"
    /\ Items(Mach) = input /\ input /= Exchanged(input, call.a, call.b)

\* C14: a Start request while the Sequence is empty (before the first
\* generate or after a reset) is rejected before any mutation: isSorting stays
\* false, isSorted, the Sequence and the status are unchanged, and no compare
\* or swap is issued (no call chain, no timer, no trace).
C14_EmptyStart ==
    /\ [](Length(Mach) = 0 => (~isSorting /\ stack = <<>> /\ pending = <<>> /\ trace = <<>>))
    /\ [][(Length(Mach) = 0 /\ lastRequest' = "start")
            => (/\ ~isSorting'
                /\ UNCHANGED <<cars, isSorted, status, algo,
                               stack, pending, trace, input, btnStartDisabled,
                               controlsDisabled>>)]_vars
C14_Witness ==
    /\ Length(Mach) = 0 /\ lastRequest = "start" /\ status = "Reset"
    /\ ~isSorting /\ ~isSorted /\ trace = <<>>

\* C15: provided every awaited hook eventually resolves, every started run
\* of any of the four algorithms, on any Sequence (one with duplicate values
\* included),
\* eventually leaves Running: it is Completed (isSorted, not isSorting) or
\* Failed (not isSorting).
C15_Termination ==
    isSorting ~> (~isSorting /\ ((Completed /\ isSorted) \/ Failed))
C15_Witness ==
    /\ Completed /\ isSorted /\ ~isSorting /\ algo = "merge"
    /\ Len(input) = MaxN /\ Len(trace) >= 6
    /\ InputValues[1] > InputValues[MaxN] /\ HasDuplicates

\* C16: from the start of a run until its handler has finished its
\* completion work (finalDriveToFinish done, controls re-enabled) isSorting
\* is true, so that a Generate or Reset request in that window is rejected
\* and leaves the Sequence as it is.
C16_OwnedUntilFinished ==
    /\ [](finishing > 0 => isSorting)
    /\ [][(finishing > 0 /\ lastRequest' \in {"generate", "reset"})
            => UNCHANGED cars]_vars

\* the swaps a relocation from index from to index to is to issue, in order
ExpectedSwaps(from, to) ==
    IF from < to
    THEN [p \in 1..(to - from) |-> <<"swap", from + p - 1, from + p>>]
    ELSE [p \in 1..(from - to) |-> <<"swap", from - p + 1, from - p>>]

\* C17: moveElementToIndex(from, to), from and to in 0..n-1, issues exactly
\* |from - to| swaps, all adjacent: (k, k+1) for k = from..to-1 in increasing
\* order when from < to, (k, k-1) for k = from..to+1 in decreasing order when
\* from > to, and none, with the Sequence unchanged, when from = to.
C17_RelocateSwaps ==
    (call.fn = "moveElementToIndex" /\ SwapArgsInRange) =>
        LET expected == ExpectedSwaps(call.a, call.b) IN
        /\ call.state /= "threw"
        /\ Len(expected) = Abs(call.a - call.b)
        /\ Len(trace) <= Len(expected)
        /\ trace = SubSeq(expected, 1, Len(trace))
        /\ call.state = "returned" => trace = expected
        /\ call.state = "awaiting" => pending /= <<>>
        /\ call.a = call.b => (Items(Mach) = input /\ call.state \in {"pending", "returned"})
C17_Witness ==
    /\ call.fn = "moveElementToIndex" /\ SwapArgsInRange /\ call.state = "returned"
    /\ call.a - call.b >= 2
    /\ trace = ExpectedSwaps(call.a, call.b)

\* C18: in a bubble-sort run, once outer passes 0..i-1 are complete (the
\* bubbleSort frame is in pass i), the last i positions hold the i largest
\* values in non-decreasing order, and every compare or swap issued from then
\* on touches only indices below n-i.
C18_BubbleSuffix ==
    (algo = "bubble" /\ isSorting /\ stack /= <<>>) =>
        LET f == stack[1]
            vals == ValuesOf(Mach)
        IN  /\ f.fn = "bubbleSort" /\ f.n = Len(vals)
            /\ \A p \in (f.n - f.i + 1)..f.n : \A q \in 1..(p - 1) : vals[q] <= vals[p]
            /\ \A t \in 1..Len(pending) :
                 pending[t].i < f.n - f.i /\ pending[t].j < f.n - f.i
C18_Witness ==
    /\ algo = "bubble" /\ isSorting /\ stack /= <<>>
    /\ stack[1].i >= 2 /\ pending /= <<>>
    /\ Len(input) = 4 /\ InputValues[1] > InputValues[4]

\* C19: when partition(low, high) returns p, low <= p <= high, the item
\* that was at index high on entry is at index p, every item in low..p-1 has
\* a value <= the pivot value and every item in p+1..high a value > it.
C19_PartitionPost ==
    lastPartition /= NoPartition =>
        LET r == lastPartition IN
        /\ 0 <= r.low /\ r.low <= r.p /\ r.p <= r.high /\ r.high < Len(r.items)
        /\ At(r.items, r.p).el = r.pivotEl
        /\ At(r.items, r.p).value = r.pivot
        /\ \A q \in r.low..(r.p - 1) : At(r.items, q).value <= r.pivot
        /\ \A q \in (r.p + 1)..r.high : At(r.items, q).value > r.pivot
C19_Witness ==
    /\ algo = "quick" /\ lastPartition /= NoPartition
    /\ lastPartition.low < lastPartition.p /\ lastPartition.p < lastPartition.high
    /\ lastPartition.items /= input

\* Outer iterations of selectionSort that are complete: while the swap that
\* ends iteration i is awaited the frame already holds i + 1.
SelectionDone == IF stack[1].pc = "outer" THEN stack[1].i - 1 ELSE stack[1].i

\* C20: in a selection-sort run, once outer iterations 0..i-1 are complete,
\* positions 0..i-1 hold the i smallest values in non-decreasing order and
\* no later compare or swap touches them; each outer iteration issues at most
\* one swap, so a run issues at most n-1 swaps.
C20_SelectionPrefix ==
    /\ (algo = "selection" /\ isSorting /\ stack /= <<>>) =>
          LET vals == ValuesOf(Mach) IN
          /\ stack[1].fn = "selectionSort" /\ stack[1].n = Len(vals)
          /\ \A p \in 1..SelectionDone : \A q \in (p + 1)..Len(vals) : vals[p] <= vals[q]
          /\ \A t \in 1..Len(pending) :
               pending[t].i >= SelectionDone /\ pending[t].j >= SelectionDone
          /\ SwapCount <= stack[1].i
          /\ SwapCount <= SelectionDone + (IF stack[1].pc = "outer" THEN 1 ELSE 0)
    /\ (algo = "selection" /\ Completed) =>
          /\ IsSorted(ValuesOf(Mach))
          /\ SwapCount <= Len(input) - 1
C20_Witness ==
    /\ algo = "selection" /\ isSorting /\ stack /= <<>>
    /\ SelectionDone >= 2 /\ SwapCount = 2
    /\ pending /= <<>> /\ pending[1].kind = "swap"

\* C21: in every run of any of the four algorithms, on any input of size
\* n >= 1 (n = 1 and inputs with duplicate values included), every index
\* passed to compare,
\* swapAnimated or moveElementToIndex lies in 0..n-1 and findIndex never
\* returns -1: no call of the run was entered with an index outside the
\* Sequence, and every hook issued names two positions of the Sequence.
C21_IndexSafety ==
    /\ fault = NoFault
    /\ \A p \in 1..Len(trace) :
         /\ 0 <= trace[p][2] /\ trace[p][2] < Len(input)
         /\ 0 <= trace[p][3] /\ trace[p][3] < Len(input)
C21_Witness ==
    /\ Completed /\ algo = "merge" /\ fault = NoFault
    /\ Len(input) = MaxN /\ ~IsSorted(InputValues) /\ HasDuplicates
    /\ \E p \in 1..Len(trace) : trace[p] = <<"swap", Len(input) - 1, Len(input) - 2>>

\* the positions of s and t outside lo..hi (0-based) hold the same items
SameOutside(s, t, lo, hi) ==
    /\ Len(s) = Len(t)
    /\ \A q \in 0..(Len(s) - 1) : (q < lo \/ q > hi) => At(s, q) = At(t, q)

\* C22: a call merge(left, mid, right) or partition(low, high) compares and
\* exchanges only positions inside its own range, and every item outside
\* the range is at the same index during the call and when it returns, for
\* any input, inputs with duplicate values included.
C22_RangeFrame ==
    /\ \A q \in 1..Len(stack) :
         /\ (stack[q].fn = "merge" /\ stack[q].pc /= "start") =>
              /\ SameOutside(stack[q].entry, Items(Mach), stack[q].left, stack[q].right)
              /\ \A t \in 1..Len(pending) :
                   /\ stack[q].left <= pending[t].i /\ pending[t].i <= stack[q].right
                   /\ stack[q].left <= pending[t].j /\ pending[t].j <= stack[q].right
         /\ (stack[q].fn = "partition" /\ stack[q].pc /= "start") =>
              /\ SameOutside(stack[q].entry, Items(Mach), stack[q].low, stack[q].high)
              /\ \A t \in 1..Len(pending) :
                   /\ stack[q].low <= pending[t].i /\ pending[t].i <= stack[q].high
                   /\ stack[q].low <= pending[t].j /\ pending[t].j <= stack[q].high
    /\ lastMerge /= NoMerge =>
         SameOutside(lastMerge.entry, lastMerge.items, lastMerge.left, lastMerge.right)
    /\ lastPartition /= NoPartition =>
         SameOutside(lastPartition.entry, lastPartition.items,
                     lastPartition.low, lastPartition.high)
C22_Witness ==
    /\ algo = "merge" /\ lastMerge /= NoMerge
    /\ lastMerge.left > 0 /\ lastMerge.items /= lastMerge.entry
    /\ Len(input) = MaxN /\ HasDuplicates

\* C23: in the first variant (IIFE 1, pairwise distinct values), whenever isSorted is
\* true the Sequence is non-empty and its values are non-decreasing; an
\* accepted Generate or Reset sets isSorted to false, and a run that fails
\* leaves isSorted as it was.
C23_SortedFlag ==
    /\ [](isSorted => (Length(Mach) > 0 /\ IsSorted(ValuesOf(Mach))))
    /\ [][(~isSorting /\ lastRequest' \in {"generate", "reset"})
            => ~isSorted']_vars
    /\ [][(lastRequest' = "reject")
            => (isSorted' = isSorted /\ Failed')]_vars
    /\ [][(~isSorted /\ isSorted')
            => (Completed' /\ lastRequest' \in {"start", "none"})]_vars
C23_Witness ==
    /\ isSorted /\ Completed /\ algo = "merge"
    /\ Len(input) = MaxFailN /\ ~IsSorted(InputValues)
    /\ input /= renderCars(InputValues)
    /\ SwapCount >= 1

Distinct(s) == \A p, q \in 1..Len(s) : p /= q => s[p] /= s[q]

\* C24: in a merge-sort run on pairwise distinct values, whenever merge
\* compares its two candidates the next unconsumed left value is at output
\* slot k; every relocation that exchanges anything is made by the main loop
\* for a right-half value and moves it leftward (from > to); the two tail
\* loops relocate nothing.
C24_MergeDistinct ==
    (algo = "merge" /\ isSorting /\ Distinct(InputValues)) =>
        \A q \in 1..Len(stack) :
            /\ (stack[q].fn = "merge" /\ stack[q].pc = "choose") =>
                 /\ Val(Mach, stack[q].k) = At(stack[q].leftVals, stack[q].i)
                 /\ findIndex(Mach, stack[q].left, At(stack[q].leftVals, stack[q].i))
                      = stack[q].k
                 /\ findIndex(Mach, stack[q].left, At(stack[q].rightVals, stack[q].j))
                      = stack[q].mid + 1 + stack[q].j
            /\ stack[q].fn = "moveElementToIndex" =>
                 /\ stack[q].fromIdx > stack[q].toIdx
                 /\ q > 1 /\ stack[q - 1].fn = "merge" /\ stack[q - 1].pc = "tookR"
                 /\ stack[q].toIdx = stack[q - 1].k
                 /\ stack[q].fromIdx = stack[q - 1].mid + 1 + stack[q - 1].j
            /\ stack[q].fn = "merge" =>
                 stack[q].pc \in {"choose", "tookR"}
C24_Witness ==
    /\ algo = "merge" /\ isSorting /\ Distinct(InputValues) /\ Len(input) = 4
    /\ \E q \in 2..Len(stack) :
         /\ stack[q].fn = "moveElementToIndex"
         /\ stack[q].fromIdx - stack[q].toIdx >= 2
         /\ stack[q - 1].pc = "tookR" /\ stack[q - 1].j >= 1

StrictlyIncreasing(s) == \A p \in 1..(Len(s) - 1) : s[p] < s[p + 1]

\* C25: a run of any of the four algorithms on a Sequence whose values are
\* strictly increasing performs no exchange and awaits no swap hook (a swap
\* call with i = j returns at once), keeps the Sequence identical to the
\* input at every step, and completes.
C25_SortedInput ==
    (algo \in Algorithms /\ StrictlyIncreasing(InputValues)) =>
        /\ Items(Mach) = input
        /\ lastSwap = NoSwap
        /\ SwapCount = 0
        /\ \A t \in 1..Len(pending) : pending[t].kind = "compare"
        /\ status \in {"Sorting", "Finished"}
        /\ Completed =>
             2 * CompareCount >= (IF algo = "merge" THEN 1 ELSE 2) * (Len(input) - 1)
C25_Witness ==
    /\ algo = "quick" /\ Completed /\ StrictlyIncreasing(InputValues)
    /\ Len(input) = MaxN /\ Items(Mach) = input
    /\ 2 * CompareCount = Len(input) * (Len(input) - 1)

====
